---- MODULE Spec2Model ----
(***************************************************************************)
(* Model of notebooks/enu_407.py: orientation vectors, rotation matrices,  *)
(* stress tensors, resolved stress and Coulomb strength in ENU coordinates.*)
(*                                                                         *)
(* Numbers are exact rationals <<n, d>> (d > 0, lowest terms).  Angles in  *)
(* degrees are drawn from the lattice 90*k + m*theta, theta = atan(4/3),   *)
(* written <<k, m>>: on this lattice sine and cosine are rational, so the  *)
(* trigonometry of the module is computed exactly.  Floating-point         *)
(* rounding is not modelled.                                               *)
(*                                                                         *)
(* A numpy array is a record [shape, data]: shape is <<>>, <<n>> or        *)
(* <<r, c>>, data is the flat row-major sequence of its elements.  A       *)
(* raised exception is a record [err].                                     *)
(***************************************************************************)
EXTENDS Integers, Sequences, FiniteSets

VARIABLES numpyRagged, fn, args, ret

vars == <<numpyRagged, fn, args, ret>>

(* ------------------------------ bounds --------------------------------- *)
MaxQuarter == 4
MaxTheta == 1
MaxLen == 2
MaxStress == 3

(* ------------------------- exact rationals ----------------------------- *)
Abs(x) == IF x < 0 THEN -x ELSE x

RECURSIVE GCD(_, _)
GCD(a, b) == IF b = 0 THEN a ELSE GCD(b, a % b)

Norm(n, d) ==
    LET g == GCD(Abs(n), Abs(d))
        s == IF d < 0 THEN -1 ELSE 1
    IN  <<s * (n \div g), s * (d \div g)>>

FromInt(n) == <<n, 1>>
RZero == FromInt(0)
ROne == FromInt(1)

RAdd(x, y) ==
    LET g == GCD(x[2], y[2])
        l == (x[2] \div g) * y[2]
    IN  Norm(x[1] * (l \div x[2]) + y[1] * (l \div y[2]), l)

RNeg(x) == <<-x[1], x[2]>>
RSub(x, y) == RAdd(x, RNeg(y))
RMul(x, y) == Norm(x[1] * y[1], x[2] * y[2])

(* the integer square root of n, by bisection on lo <= root < hi *)
RECURSIVE ISqrtBetween(_, _, _)
ISqrtBetween(n, lo, hi) ==
    IF hi - lo <= 1 THEN lo
    ELSE LET mid == (lo + hi) \div 2
         IN  IF mid * mid <= n THEN ISqrtBetween(n, mid, hi) ELSE ISqrtBetween(n, lo, mid)

ISqrt(n) == ISqrtBetween(n, 0, IF n < 46340 THEN n + 1 ELSE 46340)

(* np.sqrt of a non-negative rational: the exact root when there is one,   *)
(* otherwise the radical is kept as <<n, d, 2>>, the square root of n/d.   *)
RSqrt(x) ==
    LET rn == ISqrt(x[1])
        rd == ISqrt(x[2])
    IN  IF rn * rn = x[1] /\ rd * rd = x[2]
        THEN <<rn, rd>>
        ELSE <<x[1], x[2], 2>>

(* ----------------------------- angles ---------------------------------- *)
(* <<k, m>> is the angle 90*k + m*theta degrees, theta = atan(4/3).        *)
Deg(k, m) == <<k, m>>
AddDeg(a, b) == <<a[1] + b[1], a[2] + b[2]>>
Deg90 == Deg(1, 0)
DegNeg90 == Deg(-1, 0)

(* hundredths of a degree, theta = 53.13 degrees: used only to order angles *)
CentiDeg(a) == 9000 * a[1] + 5313 * a[2]

RECURSIVE GaussPow(_)
GaussPow(m) ==
    IF m = 0 THEN <<1, 0>>
    ELSE LET z == GaussPow(m - 1) IN <<3 * z[1] - 4 * z[2], 4 * z[1] + 3 * z[2]>>

RECURSIVE Pow5(_)
Pow5(m) == IF m = 0 THEN 1 ELSE 5 * Pow5(m - 1)

RECURSIVE QuarterTurns(_, _)
QuarterTurns(pt, k) ==
    IF k = 0 THEN pt
    ELSE QuarterTurns([c |-> RNeg(pt.s), s |-> pt.c], k - 1)

(* np.radians: the angle as a phase, carried as its point on the unit      *)
(* circle (cos, sin); equal phases modulo a full turn are equal points.    *)
radians(a) ==
    LET m == Abs(a[2])
        z == GaussPow(m)
        sg == IF a[2] < 0 THEN -1 ELSE 1
        base == [c |-> Norm(z[1], Pow5(m)), s |-> Norm(sg * z[2], Pow5(m))]
    IN  QuarterTurns(base, a[1] % 4)

cos(r) == r.c
sin(r) == r.s

(* ---------------------------- numpy arrays ----------------------------- *)
ValueError == [err |-> "ValueError"]
AxisError == [err |-> "AxisError"]
IsErr(a) == "err" \in DOMAIN a
IsObject(a) == "dtype" \in DOMAIN a
IsNum(a) == ~IsErr(a) /\ ~IsObject(a)

Scalar(x) == [shape |-> <<>>, data |-> <<x>>]
Vector(s) == [shape |-> <<Len(s)>>, data |-> s]

Rank(a) == Len(a.shape)
NRows(a) == IF Rank(a) = 2 THEN a.shape[1] ELSE 1
NCols(a) == IF Rank(a) = 2 THEN a.shape[2] ELSE IF Rank(a) = 1 THEN a.shape[1] ELSE 1
Max(x, y) == IF x >= y THEN x ELSE y

(* element (i, j) under numpy broadcasting: an axis of length 1 repeats *)
At(a, i, j) ==
    a.data[((IF NRows(a) = 1 THEN 1 ELSE i) - 1) * NCols(a)
           + (IF NCols(a) = 1 THEN 1 ELSE j)]

Broadcastable(a, b) ==
    /\ NRows(a) = NRows(b) \/ NRows(a) = 1 \/ NRows(b) = 1
    /\ NCols(a) = NCols(b) \/ NCols(a) = 1 \/ NCols(b) = 1

ShapeOf(rank, r, c) ==
    IF rank = 2 THEN <<r, c>> ELSE IF rank = 1 THEN <<c>> ELSE <<>>

(* a unary ufunc (np.radians, np.cos, np.sin, np.sqrt, unary minus) *)
Map(F(_), a) ==
    IF IsErr(a) THEN a
    ELSE [shape |-> a.shape, data |-> [i \in DOMAIN a.data |-> F(a.data[i])]]

(* a binary ufunc (+, -, *, np.multiply) with broadcasting *)
BinOp(F(_, _), a, b) ==
    IF IsErr(a) THEN a
    ELSE IF IsErr(b) THEN b
    ELSE IF ~Broadcastable(a, b) THEN ValueError
    ELSE LET r == Max(NRows(a), NRows(b))
             c == Max(NCols(a), NCols(b))
         IN  [shape |-> ShapeOf(Max(Rank(a), Rank(b)), r, c),
              data |-> [idx \in 1..(r * c) |->
                           F(At(a, ((idx - 1) \div c) + 1, ((idx - 1) % c) + 1),
                             At(b, ((idx - 1) \div c) + 1, ((idx - 1) % c) + 1))]]

RECURSIVE ColSum(_, _, _)
ColSum(a, j, i) ==
    IF i = 0 THEN RZero ELSE RAdd(ColSum(a, j, i - 1), a.data[(i - 1) * NCols(a) + j])

(* np.sum(a, axis=0) *)
SumAxis0(a) ==
    IF IsErr(a) THEN a
    ELSE IF Rank(a) = 0 THEN AxisError
    ELSE IF Rank(a) = 1
         THEN LET col == [shape |-> <<a.shape[1], 1>>, data |-> a.data]
              IN  Scalar(ColSum(col, 1, a.shape[1]))
    ELSE [shape |-> <<a.shape[2]>>,
          data |-> [j \in 1..a.shape[2] |-> ColSum(a, j, a.shape[1])]]

RECURSIVE DotRow(_, _, _, _, _)
DotRow(A, B, i, j, k) ==
    IF k = 0 THEN RZero
    ELSE RAdd(DotRow(A, B, i, j, k - 1),
              RMul(A.data[(i - 1) * A.shape[2] + k], B.data[(k - 1) * NCols(B) + j]))

(* A @ B for a rank-2 A and a rank-1 or rank-2 B *)
MatMul(A, B) ==
    IF IsErr(A) THEN A
    ELSE IF IsErr(B) THEN B
    ELSE IF Rank(B) = 0 THEN ValueError
    ELSE IF Rank(B) = 1
         THEN IF B.shape[1] # A.shape[2] THEN ValueError
              ELSE LET col == [shape |-> <<B.shape[1], 1>>, data |-> B.data]
                   IN  [shape |-> <<A.shape[1]>>,
                        data |-> [i \in 1..A.shape[1] |-> DotRow(A, col, i, 1, A.shape[2])]]
    ELSE IF B.shape[1] # A.shape[2] THEN ValueError
    ELSE [shape |-> <<A.shape[1], B.shape[2]>>,
          data |-> [idx \in 1..(A.shape[1] * B.shape[2]) |->
                       DotRow(A, B, ((idx - 1) \div B.shape[2]) + 1,
                              ((idx - 1) % B.shape[2]) + 1, A.shape[2])]]

(* A.T of a rank-2 array *)
Transpose(A) ==
    [shape |-> <<A.shape[2], A.shape[1]>>,
     data |-> [idx \in 1..(A.shape[1] * A.shape[2]) |->
                  A.data[((idx - 1) % A.shape[1]) * A.shape[2]
                         + ((idx - 1) \div A.shape[1]) + 1]]]

(* np.array([x, y, z]) of three arrays.  Equal shapes stack along a new    *)
(* leading axis.  Unequal shapes are a ragged nested sequence: numpy >=    *)
(* 1.24 raises ValueError, older numpy builds a 1-D object array.          *)
Stack3(x, y, z) ==
    IF IsErr(x) THEN x
    ELSE IF IsErr(y) THEN y
    ELSE IF IsErr(z) THEN z
    ELSE IF x.shape = y.shape /\ y.shape = z.shape
         THEN [shape |-> <<3>> \o x.shape, data |-> x.data \o y.data \o z.data]
    ELSE IF numpyRagged = "ValueError" THEN ValueError
    ELSE [shape |-> <<3>>, dtype |-> "object", data |-> <<x, y, z>>]

(* np.array of a nested list of three rows of three numbers *)
Matrix3(r1, r2, r3) == [shape |-> <<3, 3>>, data |-> r1 \o r2 \o r3]

(* np.zeros / np.ones of a rank-0 or rank-1 shape: the expected values *)
Zeros(shape) == [shape |-> shape, data |-> [i \in 1..(IF shape = <<>> THEN 1 ELSE shape[1]) |-> RZero]]
Ones(shape) == [shape |-> shape, data |-> [i \in 1..(IF shape = <<>> THEN 1 ELSE shape[1]) |-> ROne]]

Column(a, j) == [i \in 1..NRows(a) |-> At(a, i, j)]

(* --------------------------- enu_407.py -------------------------------- *)
vecDotProduct(arrayOfColumnVectors1, arrayOfColumnVectors2) ==
    SumAxis0(BinOp(RMul, arrayOfColumnVectors1, arrayOfColumnVectors2))

vecMagnitude(arrayOfColumnVectors) ==
    Map(RSqrt, vecDotProduct(arrayOfColumnVectors, arrayOfColumnVectors))


(* dirVecLine with the north component left unscaled by cos(plunge) *)
dirVecLineUnscaledNorth(plunge, trend) ==
    LET p == Map(radians, plunge)
        t == Map(radians, trend)
        vHorizontal == Map(cos, p)
        vx == BinOp(RMul, Map(sin, t), vHorizontal)
        vy == BinOp(RMul, Map(cos, t), Map(LAMBDA x : ROne, vHorizontal))
        vz == Map(RNeg, Map(sin, p))
        v == Stack3(vx, vy, vz)
    IN  IF IsErr(v) THEN v
        ELSE IF Len(v.shape) = 1 THEN [v EXCEPT !.shape = <<3, 1>>]
        ELSE v

dirVecLine(plunge, trend) ==
    LET p == Map(radians, plunge)
        t == Map(radians, trend)
        vHorizontal == Map(cos, p)
        vx == BinOp(RMul, Map(sin, t), vHorizontal)
        vy == BinOp(RMul, Map(cos, t), vHorizontal)
        vz == Map(RNeg, Map(sin, p))
        v == Stack3(vx, vy, vz)
    IN  IF IsErr(v) THEN v
        ELSE IF Len(v.shape) = 1 THEN [v EXCEPT !.shape = <<3, 1>>]
        ELSE v


(* dirVecPlane with plunge = dip + 90: the downward normal *)
dirVecPlaneDownward(strike, dip) ==
    LET trend == BinOp(AddDeg, strike, Scalar(Deg90))
        plunge == BinOp(AddDeg, dip, Scalar(Deg90))
    IN  dirVecLine(plunge, trend)

(* dirVecPlane with trend = strike - 90: the normal on the wrong side *)
dirVecPlaneLeftOfStrike(strike, dip) ==
    LET trend == BinOp(AddDeg, strike, Scalar(DegNeg90))
        plunge == BinOp(AddDeg, dip, Scalar(DegNeg90))
    IN  dirVecLine(plunge, trend)

dirVecPlane(strike, dip) ==
    LET trend == BinOp(AddDeg, strike, Scalar(Deg90))
        plunge == BinOp(AddDeg, dip, Scalar(DegNeg90))
    IN  dirVecLine(plunge, trend)


(* the counter-clockwise rotation: the signs of the sines exchanged *)
rotationMatrixCounterClockwise(angle) ==
    LET a == radians(angle)
    IN  Matrix3(<<cos(a), RNeg(sin(a)), RZero>>,
                <<sin(a), cos(a), RZero>>,
                <<RZero, RZero, ROne>>)

(* the minus sign of the second row dropped *)
rotationMatrixUnsigned(angle) ==
    LET a == radians(angle)
    IN  Matrix3(<<cos(a), sin(a), RZero>>,
                <<sin(a), cos(a), RZero>>,
                <<RZero, RZero, ROne>>)

rotationMatrixAroundZ(angle) ==
    LET a == radians(angle)
    IN  Matrix3(<<cos(a), sin(a), RZero>>,
                <<RNeg(sin(a)), cos(a), RZero>>,
                <<RZero, RZero, ROne>>)

stressTensorDiagonal(sigma_E, sigma_N, sigma_U) ==
    Matrix3(<<sigma_E, RZero, RZero>>,
            <<RZero, sigma_N, RZero>>,
            <<RZero, RZero, sigma_U>>)


(* makeStressTensor with SHmax on the first (East) diagonal entry *)
makeStressTensorSHmaxFirst(SHmin, SHmax, SV, azimuth_SHmax) ==
    LET stressTensor_principal == stressTensorDiagonal(SHmax, SHmin, SV)
        rotationMatrix == rotationMatrixAroundZ(azimuth_SHmax)
    IN  MatMul(MatMul(rotationMatrix, stressTensor_principal), Transpose(rotationMatrix))

makeStressTensor(SHmin, SHmax, SV, azimuth_SHmax) ==
    LET stressTensor_principal == stressTensorDiagonal(SHmin, SHmax, SV)
        rotationMatrix == rotationMatrixAroundZ(azimuth_SHmax)
    IN  MatMul(MatMul(rotationMatrix, stressTensor_principal), Transpose(rotationMatrix))


(* stressOnPlane with the normal part left in the shear traction *)
stressOnPlaneUnprojected(stressTensor, vecNormal) ==
    LET vecTraction == MatMul(stressTensor, vecNormal)
        normalStress == vecDotProduct(vecNormal, vecTraction)
        shearStress == vecMagnitude(vecTraction)
    IN  IF IsErr(shearStress) THEN shearStress
        ELSE [normalStress |-> normalStress, shearStress |-> shearStress]

stressOnPlane(stressTensor, vecNormal) ==
    LET vecTraction == MatMul(stressTensor, vecNormal)
        normalStress == vecDotProduct(vecNormal, vecTraction)
        shearTraction == BinOp(RSub, vecTraction, BinOp(RMul, normalStress, vecNormal))
        shearStress == vecMagnitude(shearTraction)
    IN  IF IsErr(shearStress) THEN shearStress
        ELSE [normalStress |-> normalStress, shearStress |-> shearStress]


(* strengthCoulomb with a negative normal stress clamped to zero *)
strengthCoulombClamped(cohesion, coefficientFriction, normalStress) ==
    BinOp(RAdd, cohesion,
          BinOp(RMul, coefficientFriction,
                Map(LAMBDA x : IF x[1] < 0 THEN RZero ELSE x, normalStress)))

strengthCoulomb(cohesion, coefficientFriction, normalStress) ==
    BinOp(RAdd, cohesion, BinOp(RMul, coefficientFriction, normalStress))

(* ------------------------------ inputs --------------------------------- *)
SeqsUpTo(S, n) == UNION {[1..k -> S] : k \in 1..n}

Angles == {Deg(k, m) : k \in (-1)..MaxQuarter, m \in (-MaxTheta)..MaxTheta}
BatchAngles == {Deg(0, 0), Deg(0, 1), Deg(1, 0)}
AngleArgs ==
    {Scalar(a) : a \in Angles} \cup {Vector(s) : s \in SeqsUpTo(BatchAngles, MaxLen)}

(* the batch whose columns are the vectors of s, each with r components *)
Batch(s, r) ==
    [shape |-> <<r, Len(s)>>,
     data |-> [idx \in 1..(r * Len(s)) |->
                  s[((idx - 1) % Len(s)) + 1][((idx - 1) \div Len(s)) + 1]]]

East == <<ROne, RZero, RZero>>
North == <<RZero, ROne, RZero>>
Up == <<RZero, RZero, ROne>>
Cols3 == {East, North, Up, <<Norm(3, 5), Norm(4, 5), RZero>>}
Cols2 == {<<ROne, RZero>>, <<RZero, ROne>>}

TestArrays ==
    {Batch(s, 3) : s \in SeqsUpTo(Cols3, MaxLen)}
    \cup {Batch(s, 2) : s \in SeqsUpTo(Cols2, MaxLen)}
    \cup {Vector(c) : c \in Cols3}

Stresses == {RZero} \cup {FromInt(20 * i - 10) : i \in 0..MaxStress}
Tensors ==
    {stressTensorDiagonal(sE, sN, sU) : sE \in Stresses, sN \in Stresses, sU \in Stresses}
    \cup {makeStressTensor(FromInt(10), FromInt(50), FromInt(30), a) : a \in BatchAngles}

Cohesions == {RZero, FromInt(5)}
Frictions == {RZero, Norm(3, 5), ROne}
NormalStressArgs ==
    {Scalar(x) : x \in Stresses}
    \cup {Vector(s) : s \in SeqsUpTo({FromInt(-10), RZero, FromInt(10)}, MaxLen)}

(* ------------------------------ calls ---------------------------------- *)
Init ==
    /\ numpyRagged \in {"ValueError", "object"}
    /\ fn = "import"
    /\ args = <<>>
    /\ ret = [none |-> TRUE]

CallVecDotProduct ==
    /\ fn = "import"
    /\ \E a \in TestArrays, b \in TestArrays :
           /\ fn' = "vecDotProduct"
           /\ args' = <<a, b>>
           /\ ret' = vecDotProduct(a, b)
           /\ UNCHANGED numpyRagged

CallVecMagnitude ==
    /\ fn = "import"
    /\ \E a \in TestArrays :
           /\ fn' = "vecMagnitude"
           /\ args' = <<a>>
           /\ ret' = vecMagnitude(a)
           /\ UNCHANGED numpyRagged

CallDirVecLine ==
    /\ fn = "import"
    /\ \E plunge \in AngleArgs, trend \in AngleArgs :
           /\ fn' = "dirVecLine"
           /\ args' = <<plunge, trend>>
           /\ ret' = dirVecLine(plunge, trend)
           /\ UNCHANGED numpyRagged

CallDirVecPlane ==
    /\ fn = "import"
    /\ \E strike \in AngleArgs, dip \in AngleArgs :
           /\ fn' = "dirVecPlane"
           /\ args' = <<strike, dip>>
           /\ ret' = dirVecPlane(strike, dip)
           /\ UNCHANGED numpyRagged

CallRotationMatrixAroundZ ==
    /\ fn = "import"
    /\ \E angle \in Angles :
           /\ fn' = "rotationMatrixAroundZ"
           /\ args' = <<Scalar(angle)>>
           /\ ret' = rotationMatrixAroundZ(angle)
           /\ UNCHANGED numpyRagged

CallStressTensorDiagonal ==
    /\ fn = "import"
    /\ \E sE \in Stresses, sN \in Stresses, sU \in Stresses :
           /\ fn' = "stressTensorDiagonal"
           /\ args' = <<Scalar(sE), Scalar(sN), Scalar(sU)>>
           /\ ret' = stressTensorDiagonal(sE, sN, sU)
           /\ UNCHANGED numpyRagged

CallMakeStressTensor ==
    /\ fn = "import"
    /\ \E SHmin \in Stresses, SHmax \in Stresses, SV \in Stresses, azimuth \in Angles :
           /\ fn' = "makeStressTensor"
           /\ args' = <<Scalar(SHmin), Scalar(SHmax), Scalar(SV), Scalar(azimuth)>>
           /\ ret' = makeStressTensor(SHmin, SHmax, SV, azimuth)
           /\ UNCHANGED numpyRagged

CallStressOnPlane ==
    /\ fn = "import"
    /\ \E stressTensor \in Tensors, vecNormal \in TestArrays :
           /\ fn' = "stressOnPlane"
           /\ args' = <<stressTensor, vecNormal>>
           /\ ret' = stressOnPlane(stressTensor, vecNormal)
           /\ UNCHANGED numpyRagged

CallStrengthCoulomb ==
    /\ fn = "import"
    /\ \E cohesion \in Cohesions, mu \in Frictions, normalStress \in NormalStressArgs :
           /\ fn' = "strengthCoulomb"
           /\ args' = <<Scalar(cohesion), Scalar(mu), normalStress>>
           /\ ret' = strengthCoulomb(Scalar(cohesion), Scalar(mu), normalStress)
           /\ UNCHANGED numpyRagged

(* the caller takes the returned value (or the exception); the module     *)
(* keeps no state, so the next call starts from the state after import.   *)
Return ==
    /\ fn # "import"
    /\ fn' = "import"
    /\ args' = <<>>
    /\ ret' = [none |-> TRUE]
    /\ UNCHANGED numpyRagged

Next ==
    \/ Return
    \/ CallVecDotProduct
    \/ CallVecMagnitude
    \/ CallDirVecLine
    \/ CallDirVecPlane
    \/ CallRotationMatrixAroundZ
    \/ CallStressTensorDiagonal
    \/ CallMakeStressTensor
    \/ CallStressOnPlane
    \/ CallStrengthCoulomb

Spec == Init /\ [][Next]_vars

(* ------------------------- shared vocabulary --------------------------- *)
Identity == Matrix3(<<ROne, RZero, RZero>>, <<RZero, ROne, RZero>>, <<RZero, RZero, ROne>>)
Value(a) == a.data[1]
AllOf(a, P(_)) == \A i \in DOMAIN a.data : P(a.data[i])
PlungeInRange(a) == -9000 <= CentiDeg(a) /\ CentiDeg(a) <= 9000
TrendInRange(a) == 0 <= CentiDeg(a) /\ CentiDeg(a) < 36000
DipInRange(a) == 0 <= CentiDeg(a) /\ CentiDeg(a) <= 9000
(* Paired: each argument is a scalar or a sequence, all sequences of one   *)
(* length.  SameKind: both scalars, or both sequences of one length.       *)
Paired(a, b) == Rank(a) = 0 \/ Rank(b) = 0 \/ a.shape = b.shape
SameKind(a, b) == a.shape = b.shape
IsBatch3(a) == Rank(a) = 2 /\ a.shape[1] = 3

(* C1: the tensor returned by makeStressTensor(SHmin, SHmax, SV, a) has    *)
(* the horizontal unit vector of trend a, (sin a, cos a, 0), as an         *)
(* eigenvector with eigenvalue SHmax; at azimuth 0 that is North, at       *)
(* azimuth 90 it is East.                                                  *)
SHmaxAlongAzimuth ==
    fn = "makeStressTensor" =>
        LET SHmax == Value(args[2])
            a == radians(Value(args[4]))
            v == [shape |-> <<3, 1>>, data |-> <<sin(a), cos(a), RZero>>]
        IN  /\ MatMul(ret, v) = Map(LAMBDA x : RMul(SHmax, x), v)
            /\ Value(args[4]) = Deg(0, 0) =>
                   MatMul(ret, Batch(<<North>>, 3)) = Batch(<<<<RZero, SHmax, RZero>>>>, 3)
            /\ Value(args[4]) = Deg(1, 0) =>
                   MatMul(ret, Batch(<<East>>, 3)) = Batch(<<<<SHmax, RZero, RZero>>>>, 3)

SHmaxAlongAzimuthWitness ==
    /\ fn = "makeStressTensor"
    /\ args = <<Scalar(FromInt(10)), Scalar(FromInt(50)), Scalar(FromInt(30)), Scalar(Deg(0, 1))>>
    /\ ret # stressTensorDiagonal(FromInt(10), FromInt(50), FromInt(30))
    /\ MatMul(ret, Batch(<<<<Norm(4, 5), Norm(3, 5), RZero>>>>, 3))
           = Batch(<<<<FromInt(40), FromInt(30), RZero>>>>, 3)

(* C2: a call of vecDotProduct with two batches (rank-2 arrays) whose       *)
(* shapes do not match, different column counts or row counts other than   *)
(* 3 against 3, fails with an error and returns no broadcast result; a     *)
(* call of stressOnPlane with a batch of normals that does not have 3 rows *)
(* fails with an error.                                                    *)
ShapeMismatchFails ==
    /\ fn = "vecDotProduct" /\ Rank(args[1]) = 2 /\ Rank(args[2]) = 2
           /\ args[1].shape # args[2].shape => IsErr(ret)
    /\ fn = "stressOnPlane" /\ Rank(args[2]) = 2 /\ ~IsBatch3(args[2]) => IsErr(ret)

(* C3: dirVecLine(plunge, trend), each argument a scalar or a sequence of  *)
(* length n, returns a rank-2 array of 3 rows and n columns.               *)
LineBatchShape ==
    fn = "dirVecLine" /\ Paired(args[1], args[2]) =>
        /\ ~IsErr(ret)
        /\ ret.shape = <<3, Max(NCols(args[1]), NCols(args[2]))>>

(* C4: for plunge in [-90, 90] and trend in [0, 360) every column of       *)
(* dirVecLine(plunge, trend) has magnitude 1 under vecMagnitude, and       *)
(* dirVecLine(0,0) = (0,1,0), dirVecLine(90,0) = (0,0,-1),                 *)
(* dirVecLine(-90,0) = (0,0,1).                                            *)
LineIsUnit ==
    fn = "dirVecLine" /\ (SameKind(args[1], args[2]) \/ Rank(args[2]) = 0)
        /\ AllOf(args[1], PlungeInRange) /\ AllOf(args[2], TrendInRange) =>
        /\ IsNum(ret)
        /\ vecMagnitude(ret) = Ones(<<ret.shape[2]>>)
        /\ args = <<Scalar(Deg(0, 0)), Scalar(Deg(0, 0))>> => ret = Batch(<<North>>, 3)
        /\ args = <<Scalar(Deg(1, 0)), Scalar(Deg(0, 0))>> =>
               ret = Batch(<<<<RZero, RZero, FromInt(-1)>>>>, 3)
        /\ args = <<Scalar(Deg(-1, 0)), Scalar(Deg(0, 0))>> => ret = Batch(<<Up>>, 3)

LineIsUnitWitness ==
    /\ fn = "dirVecLine"
    /\ args = <<Scalar(Deg(1, -1)), Scalar(Deg(2, 1))>>
    /\ ret = Batch(<<<<Norm(-16, 25), Norm(-12, 25), Norm(-3, 5)>>>>, 3)
    /\ vecMagnitude(ret) = Ones(<<1>>)

(* C5: dirVecPlane(strike, 0) is the unit vector (0,0,1) for every strike. *)
HorizontalPlaneNormalIsUp ==
    fn = "dirVecPlane" /\ SameKind(args[1], args[2])
        /\ AllOf(args[2], LAMBDA d : d = Deg(0, 0)) =>
        /\ IsNum(ret)
        /\ ret.shape = <<3, NCols(args[1])>>
        /\ \A j \in 1..NCols(args[1]) : Column(ret, j) = Up

HorizontalPlaneNormalIsUpWitness ==
    /\ fn = "dirVecPlane"
    /\ args = <<Scalar(Deg(0, 1)), Scalar(Deg(0, 0))>>
    /\ ret = Batch(<<Up>>, 3)

(* C6: stressOnPlane of a diagonal tensor diag(sE, sN, sU) on the unit     *)
(* normals East, North, Up returns shear stress 0 and normal stress sE,    *)
(* sN, sU respectively.                                                    *)
PrincipalAxesCarryNoShear ==
    fn = "stressOnPlane" /\ IsBatch3(args[2])
        /\ args[1] = stressTensorDiagonal(args[1].data[1], args[1].data[5], args[1].data[9]) =>
        /\ ~IsErr(ret)
        /\ \A j \in 1..NCols(args[2]) :
               /\ Column(args[2], j) = East =>
                      ret.normalStress.data[j] = args[1].data[1] /\ ret.shearStress.data[j] = RZero
               /\ Column(args[2], j) = North =>
                      ret.normalStress.data[j] = args[1].data[5] /\ ret.shearStress.data[j] = RZero
               /\ Column(args[2], j) = Up =>
                      ret.normalStress.data[j] = args[1].data[9] /\ ret.shearStress.data[j] = RZero

PrincipalAxesCarryNoShearWitness ==
    /\ fn = "stressOnPlane"
    /\ args = <<stressTensorDiagonal(FromInt(10), FromInt(50), FromInt(-10)), Batch(<<Up, East>>, 3)>>
    /\ ret = [normalStress |-> Vector(<<FromInt(-10), FromInt(10)>>),
              shearStress |-> Vector(<<RZero, RZero>>)]

(* C7: R = rotationMatrixAroundZ(a) applied as R @ v turns a direction     *)
(* clockwise seen from above: R @ dirVecLine(p, t) = dirVecLine(p, t + a)  *)
(* for every plunge p and trend t, the Up component unchanged; R(90) maps  *)
(* North to East.                                                          *)
RotationIsClockwise ==
    fn = "rotationMatrixAroundZ" =>
        /\ \A p \in Angles, t \in Angles :
               LET v == dirVecLine(Scalar(p), Scalar(t))
                   w == MatMul(ret, v)
               IN  /\ w = dirVecLine(Scalar(p), Scalar(AddDeg(t, Value(args[1]))))
                   /\ w.data[3] = v.data[3]
        /\ Value(args[1]) = Deg(1, 0) => MatMul(ret, Batch(<<North>>, 3)) = Batch(<<East>>, 3)

RotationIsClockwiseWitness ==
    /\ fn = "rotationMatrixAroundZ"
    /\ args = <<Scalar(Deg(0, 1))>>
    /\ MatMul(ret, Batch(<<North>>, 3)) = Batch(<<<<Norm(4, 5), Norm(3, 5), RZero>>>>, 3)

(* C8: rotationMatrixAroundZ(0) is the identity, and for every angle the   *)
(* matrix times its transpose is the identity.                             *)
RotationIsOrthogonal ==
    fn = "rotationMatrixAroundZ" =>
        /\ MatMul(ret, Transpose(ret)) = Identity
        /\ Value(args[1]) = Deg(0, 0) => ret = Identity

RotationIsOrthogonalWitness ==
    /\ fn = "rotationMatrixAroundZ"
    /\ args = <<Scalar(Deg(1, 1))>>
    /\ ret = Matrix3(<<Norm(-4, 5), Norm(3, 5), RZero>>,
                     <<Norm(-3, 5), Norm(-4, 5), RZero>>,
                     <<RZero, RZero, ROne>>)

(* C9: strengthCoulomb(cohesion, mu, normalStress) is exactly              *)
(* cohesion + mu * normalStress, element by element, with no clamping of a *)
(* negative normal stress; strengthCoulomb(5, 0.6, 10) = 11.               *)
CoulombIsLinear ==
    fn = "strengthCoulomb" =>
        LET c == Value(args[1])
            mu == Value(args[2])
        IN  /\ IsNum(ret)
            /\ ret.shape = args[3].shape
            /\ \A i \in DOMAIN args[3].data :
                   LET sn == args[3].data[i]
                       r == ret.data[i]
                   IN  r[1] * (c[2] * mu[2] * sn[2])
                           = r[2] * (c[1] * mu[2] * sn[2] + mu[1] * sn[1] * c[2])
            /\ args = <<Scalar(FromInt(5)), Scalar(Norm(3, 5)), Scalar(FromInt(10))>> =>
                   ret = Scalar(FromInt(11))

CoulombIsLinearWitness ==
    /\ fn = "strengthCoulomb"
    /\ args = <<Scalar(FromInt(5)), Scalar(Norm(3, 5)), Vector(<<FromInt(-10), FromInt(10)>>)>>
    /\ ret = Vector(<<FromInt(-1), FromInt(11)>>)

(* C10: for dip in [0, 90], dirVecPlane(strike, dip) points upward (Up     *)
(* component >= 0) and is perpendicular, under vecDotProduct, to the       *)
(* strike line dirVecLine(0, strike) and to the dip line                   *)
(* dirVecLine(dip, strike + 90); for dip = 90 it is the horizontal         *)
(* direction of trend strike + 90.                                         *)
PlaneNormalIsUpwardNormal ==
    fn = "dirVecPlane" /\ SameKind(args[1], args[2]) /\ AllOf(args[2], DipInRange) =>
        LET strike == args[1]
            dip == args[2]
            level == Map(LAMBDA x : Deg(0, 0), strike)
            downDip == Map(LAMBDA x : AddDeg(x, Deg90), strike)
            n == NCols(strike)
        IN  /\ IsNum(ret)
            /\ \A j \in 1..n : At(ret, 3, j)[1] >= 0
            /\ vecDotProduct(ret, dirVecLine(level, strike)) = Zeros(<<n>>)
            /\ vecDotProduct(ret, dirVecLine(dip, downDip)) = Zeros(<<n>>)
            /\ AllOf(dip, LAMBDA d : d = Deg90) => ret = dirVecLine(level, downDip)

PlaneNormalIsUpwardNormalWitness ==
    /\ fn = "dirVecPlane"
    /\ args = <<Scalar(Deg(0, 1)), Scalar(Deg(1, -1))>>
    /\ ret = Batch(<<<<Norm(9, 25), Norm(-12, 25), Norm(4, 5)>>>>, 3)

TypeOK ==
    /\ numpyRagged \in {"ValueError", "object"}
    /\ fn \in {"import", "vecDotProduct", "vecMagnitude", "dirVecLine", "dirVecPlane",
               "rotationMatrixAroundZ", "stressTensorDiagonal", "makeStressTensor",
               "stressOnPlane", "strengthCoulomb"}

====
